---- MODULE Spec2Model ----
(***************************************************************************)
(* The two-person movie picker: the session server of src/server.js, and *)
(* the handlers of its browser client, src/client/src/App.js.             *)
(*                                                                         *)
(* The server is one Node process.  Every handler runs to completion      *)
(* without interleaving, except GET /movies, which yields at its await of *)
(* the catalog provider: that handler is two steps, MoviesStart (up to    *)
(* the await) and MoviesDone (the continuation).                          *)
(*                                                                         *)
(* JavaScript values are modelled as follows.                              *)
(*   - an object or array is a record or a sequence;                       *)
(*   - a property that may be absent (undefined) is a sequence of length   *)
(*     0 (absent) or 1 (present, holding the value);                       *)
(*   - the ratings object is a function from the rated movie ids;          *)
(*   - a string that the code parses (releaseYear) is a sequence of        *)
(*     one-character strings;                                              *)
(*   - a response is [status, body], body being the object given to        *)
(*     res.json.                                                           *)
(***************************************************************************)
EXTENDS Integers, Sequences, FiniteSets, TLC

VARIABLES
    sessions,    \* const sessions = {}: code -> session, the own keys only
    ObjectCtor,  \* properties set on sessions.constructor (the inherited key)
    ObjectProto, \* properties set on Object.prototype (session.__proto__)
    pending,     \* provider calls awaited by GET /movies, in issue order
    res,         \* the response sent last
    handled,     \* how many requests Spec has taken so far
    client,      \* the state of each browser client (App.js useState)
    awaiting     \* the client awaiting each call of pending, in that order

vars ==
    <<sessions, ObjectCtor, ObjectProto, pending, res, handled,
      client, awaiting>>

---------------------------------------------------------------------------
(* Bounds of the model *)

\* provider calls in flight at once
MaxPending == 2

\* requests taken in a run of Spec, which draws them from every input set
MaxRequests == 4

---------------------------------------------------------------------------
(* Values *)

\* codes generateSessionCode can draw
Codes == {"AAA111", "BBB222"}

\* a key that sessions[code] finds on Object.prototype, not in the store
InheritedCode == "constructor"

\* codes a request may carry in its path
ReqCodes == Codes \cup {InheritedCode}

\* an absent property (undefined), and a present one
Absent == << >>
Present(v) == << v >>

\* { genres: [], ratings: {} }
NewParticipant ==
    [genres |-> << >>, ratings |-> [m \in {} |-> 0], releaseYear |-> Absent]

\* an array value with the extra properties an assignment can put on it
Array(elems) == [elems |-> elems, genres |-> Absent, releaseYear |-> Absent]

\* the session object generateCode stores
NewSession ==
    [userA |-> NewParticipant,
     userB |-> NewParticipant,
     isUserAJoined |-> FALSE,
     isUserBJoined |-> FALSE,
     movieList |-> Array(<< >>)]

\* res.json(body) and res.status(s).json(body)
Json(status, body) == [status |-> status, body |-> body]

\* no response sent yet
NoResponse == Json(0, [none |-> TRUE])

\* sessions[code] is truthy: an own key, or the inherited one
Found(code) == code \in DOMAIN sessions \/ code = InheritedCode

---------------------------------------------------------------------------
(* GET /api/generateCode *)

\* mutant of Unused: the draw is kept without the uniqueness loop
UnusedUnchecked(code) == TRUE

\* while (sessions[code]) code = generateSessionCode(): the draw kept
Unused(code) == ~Found(code)

GenerateCode(code) ==
    /\ code \in Codes
    /\ Unused(code)
    /\ res' = Json(200, [code |-> code])
    /\ UNCHANGED <<ObjectCtor, ObjectProto, pending>>
    /\ sessions' = [c \in DOMAIN sessions \cup {code} |->
                      IF c = code THEN NewSession ELSE sessions[c]]

---------------------------------------------------------------------------
(* POST /api/session/:code/join *)

\* mutant of JoinSlot: the final else branch is missing
JoinSlotNeverFull(isUserAJoined, isUserBJoined) ==
    IF ~isUserAJoined THEN "userA" ELSE "userB"

\* the if / else if / else over the two joined flags
JoinSlot(isUserAJoined, isUserBJoined) ==
    IF ~isUserAJoined THEN "userA"
    ELSE IF ~isUserBJoined THEN "userB"
    ELSE "full"

JoinResponse(slot) ==
    IF slot = "full"
    THEN Json(400, [error |-> "Session is full (two users already joined)"])
    ELSE Json(200, [user |-> slot])

\* the flags object after the join
Joined(flags, slot) ==
    IF slot = "userA" THEN [flags EXCEPT !.isUserAJoined = TRUE]
    ELSE IF slot = "userB" THEN [flags EXCEPT !.isUserBJoined = TRUE]
    ELSE flags

Join(code) ==
    IF code \in DOMAIN sessions THEN
        LET session == sessions[code]
            slot == JoinSlot(session.isUserAJoined, session.isUserBJoined)
        IN  /\ res' = JoinResponse(slot)
            /\ UNCHANGED <<ObjectCtor, ObjectProto, pending>>
            /\ sessions' = [sessions EXCEPT ![code] = Joined(session, slot)]
    ELSE IF code = InheritedCode THEN
        \* session is the Object function: its flags start undefined (falsy)
        LET slot == JoinSlot(ObjectCtor.isUserAJoined, ObjectCtor.isUserBJoined)
        IN  /\ res' = JoinResponse(slot)
            /\ UNCHANGED <<sessions, ObjectProto, pending>>
            /\ ObjectCtor' = Joined(ObjectCtor, slot)
    ELSE
        /\ res' = Json(400, [error |-> "Session code not found"])
        /\ UNCHANGED <<sessions, ObjectCtor, ObjectProto, pending>>

---------------------------------------------------------------------------
(* JavaScript numbers and parseInt *)

\* a number: a finite integer, Infinity or NaN
Num(n) == [kind |-> "finite", n |-> n]
Infinity == [kind |-> "Infinity", n |-> 0]
NaN == [kind |-> "NaN", n |-> 0]

Digits == {"0", "1", "2", "3", "4", "5", "6", "7", "8", "9"}

DigitValue(ch) ==
    CASE ch = "0" -> 0 [] ch = "1" -> 1 [] ch = "2" -> 2 [] ch = "3" -> 3
      [] ch = "4" -> 4 [] ch = "5" -> 5 [] ch = "6" -> 6 [] ch = "7" -> 7
      [] ch = "8" -> 8 [] ch = "9" -> 9

\* the value of the digits of str from position i on, up to the first
\* character that is no digit, continuing from acc
RECURSIVE ParseDigits(_, _, _)
ParseDigits(str, i, acc) ==
    IF i > Len(str) \/ str[i] \notin Digits THEN acc
    ELSE ParseDigits(str, i + 1, 10 * acc + DigitValue(str[i]))

\* parseInt(str, 10) of a string without sign or leading blanks
ParseInt(str) ==
    IF Len(str) = 0 \/ str[1] \notin Digits THEN NaN
    ELSE Num(ParseDigits(str, 1, 0))

\* a string is truthy unless empty; a missing body field is falsy too
TruthyString(str) == Len(str) > 0

\* a number is falsy when 0 or NaN
TruthyNumber(x) == ~(x.kind = "NaN" \/ (x.kind = "finite" /\ x.n = 0))

\* Math.min(a, b)
MathMin(a, b) ==
    IF a.kind = "NaN" \/ b.kind = "NaN" THEN NaN
    ELSE IF a.kind = "Infinity" THEN b
    ELSE IF b.kind = "Infinity" THEN a
    ELSE IF a.n <= b.n THEN a ELSE b

---------------------------------------------------------------------------
(* session[user] *)

\* mutant of SlotValue: a slot is usable only once it has joined
SlotValueOnceJoined(session, user) ==
    IF user = "userA" THEN (IF session.isUserAJoined THEN "object" ELSE "falsy")
    ELSE IF user = "userB"
         THEN (IF session.isUserBJoined THEN "object" ELSE "falsy")
    ELSE "falsy"

\* what session[user] evaluates to, for a session of the store:
\* "object" (a participant), "array" (the movie list), "prototype"
\* (Object.prototype, which every session inherits from), "true" (a flag
\* that is set) or "falsy" (a flag not set, or no such property)
SlotValue(session, user) ==
    IF user \in {"userA", "userB"} THEN "object"
    ELSE IF user = "movieList" THEN "array"
    ELSE IF user = "__proto__" THEN "prototype"
    ELSE IF user \in {"isUserAJoined", "isUserBJoined"}
         THEN (IF session[user] THEN "true" ELSE "falsy")
    ELSE "falsy"

\* the same for the Object function, which has no userA, userB or
\* movieList, and whose __proto__ is "function" (Function.prototype)
CtorSlotValue(user) ==
    IF user \in {"isUserAJoined", "isUserBJoined"}
    THEN (IF ObjectCtor[user] THEN "true" ELSE "falsy")
    ELSE IF user = "__proto__" THEN "function"
    ELSE "falsy"

\* session && session[user], for the code and user of a request
Slot(code, user) ==
    IF code \in DOMAIN sessions THEN SlotValue(sessions[code], user)
    ELSE IF code = InheritedCode THEN CtorSlotValue(user)
    ELSE "falsy"

InvalidSessionOrUser == Json(400, [error |-> "Invalid session or user"])

\* an exception thrown in a synchronous handler: Express answers 500
\* with its own error page
Thrown == Json(500, [html |-> "TypeError"])

---------------------------------------------------------------------------
(* POST /api/session/:code/preferences *)

\* mutant of WithPreferences: the genres sent are added to those stored
WithPreferencesMerged(target, genres, releaseYear) ==
    [target EXCEPT
        !.genres = @ \o genres,
        !.releaseYear = IF TruthyString(releaseYear)
                        THEN Present(ParseInt(releaseYear)) ELSE @]

\* session[user].genres = genres; if (releaseYear) ... = parseInt(...)
\* on a participant, or on the movie list array (target)
WithPreferences(target, genres, releaseYear) ==
    [target EXCEPT
        !.genres = genres,
        !.releaseYear = IF TruthyString(releaseYear)
                        THEN Present(ParseInt(releaseYear)) ELSE @]

Preferences(code, user, genres, releaseYear) ==
    LET slot == Slot(code, user) IN
    IF slot = "falsy" THEN
        /\ res' = InvalidSessionOrUser
        /\ UNCHANGED <<sessions, ObjectCtor, ObjectProto, pending>>
    ELSE
        /\ res' = Json(200, [message |-> "Preferences updated"])
        /\ UNCHANGED <<ObjectCtor, pending>>
        /\ sessions' =
             IF slot = "object" THEN
                 [sessions EXCEPT ![code][user] =
                     WithPreferences(@, genres, releaseYear)]
             ELSE IF slot = "array" THEN
                 \* the array gets a genres property holding the array sent
                 [sessions EXCEPT ![code].movieList =
                     WithPreferences(@, Present(genres), releaseYear)]
             ELSE
                 \* a property set on the primitive true is dropped; one set
                 \* on a prototype is no own property of any session
                 sessions
        /\ ObjectProto' =
             IF slot = "prototype"
             THEN WithPreferences(ObjectProto, Present(genres), releaseYear)
             ELSE ObjectProto

---------------------------------------------------------------------------
(* POST /api/session/:code/rate *)

\* mutant of WithRating: the ratings object is replaced by one holding
\* the new entry only
WithRatingOnly(ratings, movieId, rating) == [m \in {movieId} |-> rating]

\* ratings[movieId] = rating
WithRating(ratings, movieId, rating) ==
    [m \in DOMAIN ratings \cup {movieId} |->
        IF m = movieId THEN rating ELSE ratings[m]]

\* mutant of Rate: the participant is written back from a stale copy
\* that holds the ratings only
RateFromStaleCopy(code, user, movieId, rating) ==
    /\ code \in DOMAIN sessions /\ user \in {"userA", "userB"}
    /\ res' = Json(200, [message |-> "Rating saved"])
    /\ UNCHANGED <<ObjectCtor, ObjectProto, pending>>
    /\ sessions' = [sessions EXCEPT ![code][user] =
                       [NewParticipant EXCEPT
                           !.ratings = WithRating(sessions[code][user].ratings,
                                                  movieId, rating)]]

Rate(code, user, movieId, rating) ==
    LET slot == Slot(code, user) IN
    IF slot = "falsy" THEN
        /\ res' = InvalidSessionOrUser
        /\ UNCHANGED <<sessions, ObjectCtor, ObjectProto, pending>>
    ELSE IF slot = "object" THEN
        /\ res' = Json(200, [message |-> "Rating saved"])
        /\ UNCHANGED <<ObjectCtor, ObjectProto, pending>>
        /\ sessions' = [sessions EXCEPT ![code][user].ratings =
                           WithRating(@, movieId, rating)]
    ELSE
        \* session[user].ratings is undefined: indexing it throws
        /\ res' = Thrown
        /\ UNCHANGED <<sessions, ObjectCtor, ObjectProto, pending>>

---------------------------------------------------------------------------
(* GET /api/session/:code/movies *)

\* the elements of seq in order of first occurrence: Array.from(new Set(seq))
RECURSIVE Distinct(_, _)
Distinct(seq, acc) ==
    IF seq = << >> THEN acc
    ELSE Distinct(Tail(seq),
                  IF \E i \in 1..Len(acc) : acc[i] = Head(seq)
                  THEN acc ELSE Append(acc, Head(seq)))

\* mutant of GenresString: the two arrays joined without the Set
GenresStringWithRepeats(genresA, genresB) == genresA \o genresB

\* new Set([...userA.genres, ...userB.genres]) joined with ",": the
\* string is modelled by the sequence of its comma-separated fields
GenresString(genresA, genresB) == Distinct(genresA \o genresB, << >>)

\* session.userX.releaseYear || Infinity
OrInfinity(releaseYear) ==
    IF releaseYear # Absent /\ TruthyNumber(releaseYear[1])
    THEN releaseYear[1] ELSE Infinity

\* session.userX.releaseYear: the own property, else the inherited one
ReleaseYearOf(participant) ==
    IF participant.releaseYear # Absent THEN participant.releaseYear
    ELSE ObjectProto.releaseYear

FinalYear(session) ==
    MathMin(OrInfinity(ReleaseYearOf(session.userA)),
            OrInfinity(ReleaseYearOf(session.userB)))

\* `${finalYear}-12-31`
ReleaseDate(finalYear) == [year |-> finalYear.n, rest |-> "-12-31"]

\* the params object sent to the discover endpoint (api_key left out)
Params(session) ==
    [with_genres |-> GenresString(session.userA.genres, session.userB.genres),
     language |-> "en-US",
     sort_by |-> "popularity.desc",
     page |-> 1,
     lte |-> IF FinalYear(session) # Infinity
             THEN Present(ReleaseDate(FinalYear(session))) ELSE Absent]

\* a movie record of the provider; the server reads its id only
Movie(n) == [id |-> n]

\* mutant of Slice: the whole response is kept
SliceAll(results) == results

\* results.slice(0, 12)
ListLimit == 12
Slice(results) ==
    SubSeq(results, 1, IF Len(results) < ListLimit THEN Len(results) ELSE ListLimit)

\* the answers the provider may give: result lists, or a failure
Results ==
    {<< >>, <<Movie(1)>>, <<Movie(1), Movie(2)>>, <<Movie(2), Movie(1)>>,
     [i \in 1..(ListLimit + 1) |-> Movie(i)]}
Ok(results) == [ok |-> TRUE, results |-> results]
Failure == [ok |-> FALSE, results |-> << >>]
Answers == {Ok(results) : results \in Results} \cup {Failure}

\* a rejection of the async handler outside its try: Express 4 sends no
\* response, Express 5 answers 500.  (Where Node ends the process on an
\* unhandled rejection there is no later step to describe: the runs of
\* this module are those in which the server keeps serving.)
Unanswered == Json(0, [unhandledRejection |-> "TypeError"])

\* mutant of Without: the call answered is issued again
Reissued(seq, i) ==
    Append(SubSeq(seq, 1, i - 1) \o SubSeq(seq, i + 1, Len(seq)), seq[i])

\* seq without its i-th element
Without(seq, i) == SubSeq(seq, 1, i - 1) \o SubSeq(seq, i + 1, Len(seq))

\* the handler up to its await of axios.get
MoviesStart(code) ==
    IF code \in DOMAIN sessions THEN
        /\ Len(pending) < MaxPending
        /\ UNCHANGED <<sessions, ObjectCtor, ObjectProto, res>>
        /\ pending' = Append(pending,
                             [code |-> code, params |-> Params(sessions[code])])
    ELSE IF code = InheritedCode THEN
        \* session.userA is undefined: reading its genres throws
        /\ res' \in {Unanswered, Thrown}
        /\ UNCHANGED <<sessions, ObjectCtor, ObjectProto, pending>>
    ELSE
        /\ res' = Json(400, [error |-> "Invalid session code"])
        /\ UNCHANGED <<sessions, ObjectCtor, ObjectProto, pending>>

\* the handler from its await on: the i-th call in flight is answered
MoviesDone(i, answer) ==
    /\ i \in 1..Len(pending)
    /\ pending' = Without(pending, i)
    /\ IF answer = Failure THEN
           /\ res' = Json(500, [error |-> "Error fetching movie list"])
           /\ UNCHANGED sessions
       ELSE
           /\ sessions' = [sessions EXCEPT
                  ![pending[i].code].movieList = Array(Slice(answer.results))]
           /\ res' = Json(200, [movies |-> Slice(answer.results)])
    /\ UNCHANGED <<ObjectCtor, ObjectProto>>

---------------------------------------------------------------------------
(* GET /api/session/:code/recommendation *)

\* mutant of AllRated: some in place of every
SomeRated(movieList, ratings) ==
    \E i \in 1..Len(movieList) : movieList[i].id \in DOMAIN ratings

\* movieList.every(movie => ratings.hasOwnProperty(movie.id))
AllRated(movieList, ratings) ==
    \A i \in 1..Len(movieList) : movieList[i].id \in DOMAIN ratings

\* ratings[mId] || 0
RatingOrZero(ratings, mId) ==
    IF mId \in DOMAIN ratings /\ ratings[mId] # 0 THEN ratings[mId] ELSE 0

\* twice the combinedScore (ratingA + ratingB) / 2, to stay in the integers
CombinedScore2(session, mId) ==
    RatingOrZero(session.userA.ratings, mId)
    + RatingOrZero(session.userB.ratings, mId)

\* let bestScore = -1, doubled like the scores
InitialBestScore2 == -2

\* mutant of Better: >= in place of >, the last of equal scores wins
BetterOrEqual(combinedScore2, bestScore2) == combinedScore2 >= bestScore2

\* a movie replaces the best one so far
Better(combinedScore2, bestScore2) == combinedScore2 > bestScore2

\* the for loop from the i-th movie on; best is <<bestMovie>> or << >> (null)
RECURSIVE BestFrom(_, _, _, _)
BestFrom(session, i, best, bestScore2) ==
    IF i > Len(session.movieList.elems) THEN best
    ELSE LET movie == session.movieList.elems[i]
             score2 == CombinedScore2(session, movie.id)
         IN  IF Better(score2, bestScore2)
             THEN BestFrom(session, i + 1, <<movie>>, score2)
             ELSE BestFrom(session, i + 1, best, bestScore2)

BestMovie(session) == BestFrom(session, 1, << >>, InitialBestScore2)

\* mutant of NoMovieList: an empty list counts as no list
NoMovieListOrEmpty(code) ==
    code \notin DOMAIN sessions \/ sessions[code].movieList.elems = << >>

\* !session || !session.movieList: no session, or the Object function,
\* which has no movieList; the array of a session is truthy even if empty
NoMovieList(code) == code \notin DOMAIN sessions

Recommendation(code) ==
    /\ UNCHANGED <<sessions, ObjectCtor, ObjectProto, pending>>
    /\ IF NoMovieList(code) THEN
           res' = Json(400, [error |-> "No movie list available or session invalid"])
       ELSE LET session == sessions[code] IN
           IF ~(AllRated(session.movieList.elems, session.userA.ratings)
                /\ AllRated(session.movieList.elems, session.userB.ratings))
           THEN res' = Json(400, [error |-> "Both users have not finished rating yet"])
           ELSE IF BestMovie(session) # << >>
           THEN res' = Json(200, [recommended |-> BestMovie(session)[1]])
           ELSE res' = Json(200, [message |-> "No ratings found to make a recommendation"])

---------------------------------------------------------------------------

(* The requests *)

\* the user field of a body: the two slots, the other keys of a session,
\* an inherited key, and "undefined", the key a missing field is looked
\* up under
Users ==
    {"userA", "userB", "movieList", "isUserAJoined", "isUserBJoined",
     "__proto__", "undefined"}
Slots == {"userA", "userB"}

\* the genres arrays the client sends
GenreInputs == {<<"28", "35">>, <<"18", "28">>}

\* the releaseYear strings the client sends; << >> is the empty string
\* of an untouched field
YearInputs ==
    {<< >>, <<"0">>, <<"1", "9", "9", "0">>, <<"2", "0", "1", "0">>}

MovieIds == {1, 2}
Ratings == {-1, 0, 3}

\* the bodies Spec draws, which draws every code and every user: fewer
\* years and ratings than the specifications of one code and two slots
FewYears == {<<"1", "9", "9", "0">>}
FewRatings == {0, 3}

---------------------------------------------------------------------------
(* The browser client, src/client/src/App.js *)

\* two browsers sharing one session code
Clients == {1, 2}

\* the useState values a handler reads or writes
NewClient ==
    [step |-> "landing", userType |-> "", movies |-> << >>,
     ratings |-> [m \in {} |-> 0]]

\* the genres each user ticks; the year field is left untouched ('')
ClientGenres(c) == IF c = 1 THEN <<"28", "35">> ELSE <<"18", "28">>
ClientYear == << >>

\* the star a user clicks
ClientRating == 3

\* a provider that never fails and answers by genre: movie 1 is a comedy
\* (35), movie 2 a drama (18)
MovieGenre(id) == IF id = 1 THEN "35" ELSE "18"
RECURSIVE Matching(_, _)
Matching(movies, genres) ==
    IF movies = << >> THEN << >>
    ELSE (IF \E i \in 1..Len(genres) : genres[i] = MovieGenre(Head(movies).id)
          THEN <<Head(movies)>> ELSE << >>)
         \o Matching(Tail(movies), genres)
Provider(params) == Ok(Matching(<<Movie(1), Movie(2)>>, params.with_genres))

\* handleJoinCode / handleJoinAsUserA: join, then the genres step
handleJoinCode(c, code) ==
    /\ client[c].step = "landing"
    /\ code \in DOMAIN sessions
    /\ Join(code)
    /\ client' = IF res'.status = 200
                 THEN [client EXCEPT ![c].userType = res'.body.user,
                                     ![c].step = "genres"]
                 ELSE client
    /\ UNCHANGED <<handled, awaiting>>

handleSaveGenres(c, code) ==
    /\ client[c].step = "genres"
    /\ Preferences(code, client[c].userType, ClientGenres(c), ClientYear)
    /\ client' = IF res'.status = 200
                 THEN [client EXCEPT ![c].step = "fetchMovies"]
                 ELSE client
    /\ UNCHANGED <<handled, awaiting>>

\* handleFetchMovies up to its await: one click per client
handleFetchMovies(c, code) ==
    /\ client[c].step = "fetchMovies"
    /\ \A i \in 1..Len(awaiting) : awaiting[i] # c
    /\ MoviesStart(code)
    /\ awaiting' = Append(awaiting, c)
    /\ UNCHANGED <<handled, client>>

\* the provider answers the i-th call; the server stores and answers the
\* list, and handleFetchMovies continues with setMovies
FetchMoviesAnswered(i) ==
    /\ i \in 1..Len(pending)
    /\ MoviesDone(i, Provider(pending[i].params))
    /\ client' = [client EXCEPT ![awaiting[i]].movies = res'.body.movies,
                                ![awaiting[i]].step = "rateMovies"]
    /\ awaiting' = Without(awaiting, i)
    /\ UNCHANGED handled

\* handleRate: a star of a movie the client shows
handleRate(c, code, movieId, ratingValue) ==
    /\ client[c].step = "rateMovies"
    /\ \E i \in 1..Len(client[c].movies) : client[c].movies[i].id = movieId
    /\ Rate(code, client[c].userType, movieId, ratingValue)
    /\ client' = [client EXCEPT ![c].ratings =
                     WithRating(@, movieId, ratingValue)]
    /\ UNCHANGED <<handled, awaiting>>

\* handleGetRecommendation: an error is alerted, anything else is final
handleGetRecommendation(c, code) ==
    /\ client[c].step = "rateMovies"
    /\ Recommendation(code)
    /\ client' = IF "error" \in DOMAIN res'.body THEN client
                 ELSE [client EXCEPT ![c].step = "final"]
    /\ UNCHANGED <<handled, awaiting>>

---------------------------------------------------------------------------
Init ==
    /\ sessions = [c \in {} |-> NewSession]
    /\ ObjectCtor = [isUserAJoined |-> FALSE, isUserBJoined |-> FALSE]
    /\ ObjectProto = [genres |-> Absent, releaseYear |-> Absent]
    /\ pending = << >>
    /\ res = NoResponse
    /\ handled = 0
    /\ client = [c \in Clients |-> NewClient]
    /\ awaiting = << >>

\* a step of Spec: one more request taken, within the bound
Counted(step) ==
    /\ handled < MaxRequests
    /\ handled' = handled + 1
    /\ step
    /\ UNCHANGED <<client, awaiting>>

\* a step of the specifications that do not bound the requests
Uncounted(step) == step /\ UNCHANGED <<handled, client, awaiting>>

\* any request, or the answer of the provider to a call in flight
Next ==
    \/ \E code \in Codes : Counted(GenerateCode(code))
    \/ \E code \in ReqCodes : Counted(Join(code))
    \/ \E code \in ReqCodes, user \in Users,
          genres \in GenreInputs, releaseYear \in FewYears :
            Counted(Preferences(code, user, genres, releaseYear))
    \/ \E code \in ReqCodes : Counted(MoviesStart(code))
    \/ \E i \in 1..MaxPending, answer \in Answers :
            Counted(MoviesDone(i, answer))
    \/ \E code \in ReqCodes, user \in Users,
          movieId \in MovieIds, rating \in FewRatings :
            Counted(Rate(code, user, movieId, rating))
    \/ \E code \in ReqCodes : Counted(Recommendation(code))

Spec == Init /\ [][Next]_vars

\* one session and its two participants rating and asking for the
\* recommendation, without a bound on the number of requests
OneCode == {"AAA111"}

NextRatings ==
    \/ \E code \in OneCode : Uncounted(GenerateCode(code))
    \/ \E code \in OneCode : Uncounted(MoviesStart(code))
    \/ \E i \in 1..MaxPending, answer \in Answers :
            Uncounted(MoviesDone(i, answer))
    \/ \E code \in OneCode, user \in Slots,
          movieId \in MovieIds, rating \in Ratings :
            Uncounted(Rate(code, user, movieId, rating))
    \/ \E code \in OneCode : Uncounted(Recommendation(code))

SpecRatings == Init /\ [][NextRatings]_vars

\* one session and its two participants saving preferences and fetching,
\* one fetch at a time
NextPreferences ==
    \/ \E code \in OneCode : Uncounted(GenerateCode(code))
    \/ \E code \in OneCode, user \in Slots,
          genres \in GenreInputs, releaseYear \in YearInputs :
            Uncounted(Preferences(code, user, genres, releaseYear))
    \/ \E code \in OneCode : Uncounted(pending = << >> /\ MoviesStart(code))
    \/ \E i \in 1..MaxPending, answer \in Answers :
            Uncounted(MoviesDone(i, answer))

SpecPreferences == Init /\ [][NextPreferences]_vars

\* one session under every handler, without a bound on the number of
\* requests: one body of each kind, and the movie list among the user
\* names
OneGenres == {<<"28", "35">>}
OneRating == {3}
SlotsAndList == Slots \cup {"movieList"}

NextSession ==
    \/ \E code \in OneCode : Uncounted(GenerateCode(code))
    \/ \E code \in OneCode : Uncounted(Join(code))
    \/ \E code \in OneCode, user \in SlotsAndList,
          genres \in OneGenres, releaseYear \in FewYears :
            Uncounted(Preferences(code, user, genres, releaseYear))
    \/ \E code \in OneCode : Uncounted(MoviesStart(code))
    \/ \E i \in 1..MaxPending, answer \in Answers :
            Uncounted(MoviesDone(i, answer))
    \/ \E code \in OneCode, user \in SlotsAndList,
          movieId \in MovieIds, rating \in OneRating :
            Uncounted(Rate(code, user, movieId, rating))
    \/ \E code \in OneCode : Uncounted(Recommendation(code))

SpecSession == Init /\ [][NextSession]_vars

\* the two participants of one session saving preferences and rating, in
\* every order
NextWrites ==
    \/ \E code \in OneCode : Uncounted(GenerateCode(code))
    \/ \E code \in OneCode, user \in Slots,
          genres \in GenreInputs, releaseYear \in YearInputs :
            Uncounted(Preferences(code, user, genres, releaseYear))
    \/ \E code \in OneCode, user \in Slots,
          movieId \in MovieIds, rating \in FewRatings :
            Uncounted(Rate(code, user, movieId, rating))

SpecWrites == Init /\ [][NextWrites]_vars

\* two clients following the flow of App.js on one generated code
NextClients ==
    \/ \E code \in OneCode : Uncounted(GenerateCode(code))
    \/ \E c \in Clients, code \in OneCode : handleJoinCode(c, code)
    \/ \E c \in Clients, code \in OneCode : handleSaveGenres(c, code)
    \/ \E c \in Clients, code \in OneCode : handleFetchMovies(c, code)
    \/ \E i \in 1..MaxPending : FetchMoviesAnswered(i)
    \/ \E c \in Clients, code \in OneCode, movieId \in MovieIds :
            handleRate(c, code, movieId, ClientRating)
    \/ \E c \in Clients, code \in OneCode : handleGetRecommendation(c, code)

SpecClients == Init /\ [][NextClients]_vars

---------------------------------------------------------------------------
(* Properties *)

SessionFull == Json(400, [error |-> "Session is full (two users already joined)"])

\* C1: for every session of the store, a join that finds userA unjoined
\* answers userA and sets that flag only, one that finds userA joined and
\* userB unjoined answers userB and sets that flag only, and one that finds
\* both joined answers the session-full error and leaves the store as it
\* is; no step other than a join of that code changes a joined flag, no
\* step resets one or removes the session, and userB is never joined
\* before userA.  So the successful joins of a session are at most two,
\* the first as userA and the second as userB.
JoinOrder ==
    [][\A code \in DOMAIN sessions :
         LET s == sessions[code] IN
         /\ code \in DOMAIN sessions'
         /\ s.isUserAJoined => sessions'[code].isUserAJoined
         /\ s.isUserBJoined => sessions'[code].isUserBJoined
         /\ sessions'[code].isUserBJoined => sessions'[code].isUserAJoined
         /\ (\/ sessions'[code].isUserAJoined # s.isUserAJoined
             \/ sessions'[code].isUserBJoined # s.isUserBJoined) => Join(code)
         /\ Join(code) =>
              IF ~s.isUserAJoined THEN
                  /\ res' = Json(200, [user |-> "userA"])
                  /\ sessions' = [sessions EXCEPT ![code].isUserAJoined = TRUE]
              ELSE IF ~s.isUserBJoined THEN
                  /\ res' = Json(200, [user |-> "userB"])
                  /\ sessions' = [sessions EXCEPT ![code].isUserBJoined = TRUE]
              ELSE
                  /\ res' = SessionFull
                  /\ sessions' = sessions
      ]_vars

\* a third join of a session has been refused
JoinOrderWitness ==
    /\ res = SessionFull
    /\ \E code \in DOMAIN sessions :
         sessions[code].isUserAJoined /\ sessions[code].isUserBJoined

\* a session as generateCode creates it, spelled out
Fresh(session) ==
    /\ ~session.isUserAJoined /\ ~session.isUserBJoined
    /\ session.movieList.elems = << >>
    /\ \A user \in Slots :
         /\ session[user].genres = << >>
         /\ DOMAIN session[user].ratings = {}
         /\ session[user].releaseYear = Absent

\* C2: a generate-code step answers a code that is no key of the store,
\* adds exactly that key with a fresh session and leaves every other
\* session as it is; no step removes a key, and only generate-code adds
\* one, so the code differs from every code answered earlier.
GenerateUnique ==
    [][/\ DOMAIN sessions \subseteq DOMAIN sessions'
       /\ \A code \in Codes :
            /\ (code \in DOMAIN sessions' \ DOMAIN sessions) => GenerateCode(code)
            /\ GenerateCode(code) =>
                 /\ code \notin DOMAIN sessions
                 /\ res' = Json(200, [code |-> code])
                 /\ DOMAIN sessions' = DOMAIN sessions \cup {code}
                 /\ Fresh(sessions'[code])
                 /\ \A c \in DOMAIN sessions : sessions'[c] = sessions[c]
      ]_vars

\* a second code has been generated beside a session already in use
GenerateUniqueWitness ==
    \E c1 \in DOMAIN sessions, c2 \in DOMAIN sessions :
        /\ c1 # c2
        /\ ~Fresh(sessions[c1])
        /\ Fresh(sessions[c2])
        /\ res = Json(200, [code |-> c2])

IncompleteRatings ==
    Json(400, [error |-> "Both users have not finished rating yet"])
NoRecommendation ==
    Json(200, [message |-> "No ratings found to make a recommendation"])

\* some movie of the session's list is no key of a participant's ratings
Unrated(session) ==
    \E i \in 1..Len(session.movieList.elems), user \in Slots :
        session.movieList.elems[i].id \notin DOMAIN session[user].ratings

\* C3: a recommendation request on a session with a listed movie that
\* userA or userB has no rating entry for answers the incomplete-ratings
\* error, with no movie; a request that answers a movie found every listed
\* movie id a key of both participants' ratings.
RecommendationNeedsAllRatings ==
    [][\A code \in DOMAIN sessions :
         Recommendation(code) =>
           /\ Unrated(sessions[code]) => res' = IncompleteRatings
           /\ "recommended" \in DOMAIN res'.body => ~Unrated(sessions[code])
      ]_vars

\* a request was refused although one participant has rated every movie
\* of a list of two and the other one of them, with a rating of 0
RecommendationNeedsAllRatingsWitness ==
    /\ res = IncompleteRatings
    /\ \E code \in DOMAIN sessions :
         LET s == sessions[code] IN
         /\ Len(s.movieList.elems) = 2
         /\ DOMAIN s.userA.ratings = {1, 2}
         /\ DOMAIN s.userB.ratings = {1}
         /\ s.userB.ratings[1] = 0

\* ratingA + ratingB of a listed movie, twice its score
Sum(session, movie) ==
    session.userA.ratings[movie.id] + session.userB.ratings[movie.id]

\* C4: a movie answered by a recommendation request is an element of the
\* movie list whose score (ratingA + ratingB) / 2 no listed movie exceeds
\* and no earlier listed movie equals.
RecommendationIsFirstMaximum ==
    [][\A code \in DOMAIN sessions :
         (Recommendation(code) /\ "recommended" \in DOMAIN res'.body) =>
           LET s == sessions[code]
               list == s.movieList.elems
           IN  \E i \in 1..Len(list) :
                 /\ list[i] = res'.body.recommended
                 /\ \A j \in 1..Len(list) : Sum(s, list[j]) <= Sum(s, list[i])
                 /\ \A j \in 1..(i - 1) : Sum(s, list[j]) < Sum(s, list[i])
      ]_vars

\* the first of two listed movies with equal scores from unequal ratings
\* was recommended
RecommendationIsFirstMaximumWitness ==
    \E code \in DOMAIN sessions :
        LET s == sessions[code]
            list == s.movieList.elems
        IN  /\ Len(list) = 2
            /\ ~Unrated(s)
            /\ s.userA.ratings[list[1].id] # s.userA.ratings[list[2].id]
            /\ Sum(s, list[1]) = Sum(s, list[2])
            /\ res = Json(200, [recommended |-> list[1]])

\* C5: a recommendation request on a session of the store whose movie
\* list is empty answers the no-recommendation message with status 200,
\* whatever ratings the participants have stored.
EmptyListNoRecommendation ==
    [][\A code \in DOMAIN sessions :
         (Recommendation(code) /\ sessions[code].movieList.elems = << >>) =>
           res' = NoRecommendation
      ]_vars

\* the message was answered for an empty list with ratings stored
EmptyListNoRecommendationWitness ==
    /\ res = NoRecommendation
    /\ \E code \in DOMAIN sessions :
         /\ sessions[code].movieList.elems = << >>
         /\ DOMAIN sessions[code].userA.ratings # {}
         /\ DOMAIN sessions[code].userB.ratings # {}

\* the elements of a sequence
Range(seq) == {seq[i] : i \in 1..Len(seq)}

\* the params of the provider call a MoviesStart step has just issued
Issued == pending'[Len(pending')].params

\* C6: the genre filter a fetch sends holds every genre that userA or
\* userB has stored at that moment exactly once, and no other genre.
GenreFilterIsUnion ==
    [][\A code \in DOMAIN sessions :
         MoviesStart(code) =>
           LET union == Range(sessions[code].userA.genres)
                        \cup Range(sessions[code].userB.genres)
               sent == Issued.with_genres
           IN  /\ Range(sent) = union
               /\ \A g \in union :
                    Cardinality({i \in 1..Len(sent) : sent[i] = g}) = 1
      ]_vars

\* a call in flight carries three genres for two stored arrays of two
\* genres each that share one
GenreFilterIsUnionWitness ==
    \E i \in 1..Len(pending) :
        LET s == sessions[pending[i].code] IN
        /\ s.userA.genres = <<"28", "35">>
        /\ s.userB.genres = <<"18", "28">>
        /\ pending[i].params.with_genres = <<"28", "35", "18">>

\* the smaller of two stored cutoffs, each absent (<< >>) or present
MinCutoff(a, b) ==
    IF a = Absent THEN b
    ELSE IF b = Absent THEN a
    ELSE IF a[1].n <= b[1].n THEN a ELSE b

\* C7: the release-date bound a fetch sends is December 31 of the smaller
\* of the cutoffs the two participants have stored, an absent cutoff
\* counting as +infinity; with no cutoff stored, no bound is sent.
CutoffIsMinimumOfStored ==
    [][\A code \in DOMAIN sessions :
         MoviesStart(code) =>
           LET cutoff == MinCutoff(sessions[code].userA.releaseYear,
                                   sessions[code].userB.releaseYear)
           IN  Issued.lte =
                 IF cutoff = Absent THEN Absent
                 ELSE Present([year |-> cutoff[1].n, rest |-> "-12-31"])
      ]_vars

\* a stored cutoff of 0 taken as absent
NonZero(cutoff) == IF cutoff = Present(Num(0)) THEN Absent ELSE cutoff

\* the same with a stored cutoff of 0 counting as +infinity too: this
\* much holds while no property is set on Object.prototype
CutoffIsMinimumOfNonZero ==
    [][\A code \in DOMAIN sessions :
         MoviesStart(code) =>
           LET cutoff == MinCutoff(NonZero(sessions[code].userA.releaseYear),
                                   NonZero(sessions[code].userB.releaseYear))
           IN  Issued.lte =
                 IF cutoff = Absent THEN Absent
                 ELSE Present([year |-> cutoff[1].n, rest |-> "-12-31"])
      ]_vars

PreferencesUpdated == Json(200, [message |-> "Preferences updated"])

\* the slot that is not user
Other(user) == IF user = "userA" THEN "userB" ELSE "userA"

\* C8: a save-preferences step for slot userA or userB of a session of
\* the store succeeds and leaves that slot's genres equal to the array
\* sent, whatever was stored; the other slot's genres, both slots'
\* ratings, the joined flags and the movie list are as before.
PreferencesReplaceGenres ==
    [][\A code \in DOMAIN sessions, user \in Slots,
          genres \in GenreInputs, releaseYear \in FewYears :
         Preferences(code, user, genres, releaseYear) =>
           LET old == sessions[code]
               new == sessions'[code]
           IN  /\ res' = PreferencesUpdated
               /\ new[user].genres = genres
               /\ new[Other(user)].genres = old[Other(user)].genres
               /\ new.userA.ratings = old.userA.ratings
               /\ new.userB.ratings = old.userB.ratings
               /\ new.isUserAJoined = old.isUserAJoined
               /\ new.isUserBJoined = old.isUserBJoined
               /\ new.movieList = old.movieList
      ]_vars

\* preferences were saved in a session with a participant joined, and the
\* two slots hold different arrays
PreferencesReplaceGenresWitness ==
    /\ res = PreferencesUpdated
    /\ \E code \in DOMAIN sessions :
         /\ sessions[code].isUserAJoined
         /\ sessions[code].userA.genres = <<"18", "28">>
         /\ sessions[code].userB.genres = <<"28", "35">>

\* a structured error response
ErrorResponse(r) == r.status = 400 /\ DOMAIN r.body = {"error"}

\* C9: save-preferences and rate for a session of the store with a slot
\* name other than userA and userB answer a structured error and leave
\* the store as it is.
InvalidSlotRejected ==
    [][\A code \in DOMAIN sessions, user \in Users \ Slots :
         /\ \A genres \in GenreInputs, releaseYear \in FewYears :
              Preferences(code, user, genres, releaseYear) =>
                ErrorResponse(res') /\ sessions' = sessions
         /\ \A movieId \in MovieIds, rating \in FewRatings :
              Rate(code, user, movieId, rating) =>
                ErrorResponse(res') /\ sessions' = sessions
      ]_vars

\* every request with one of codes answers a structured error, changes no
\* session and issues no provider call
Rejects(codes) ==
    \A code \in codes :
      LET Refused == ErrorResponse(res') /\ sessions' = sessions
                     /\ pending' = pending
      IN  /\ Join(code) => Refused
          /\ MoviesStart(code) => Refused
          /\ Recommendation(code) => Refused
          /\ \A user \in Users :
               /\ \A genres \in GenreInputs, releaseYear \in FewYears :
                    Preferences(code, user, genres, releaseYear) => Refused
               /\ \A movieId \in MovieIds, rating \in FewRatings :
                    Rate(code, user, movieId, rating) => Refused

\* C10: join, save-preferences, fetch, rate and recommendation with a
\* code that is no key of the store answer a structured error, add no
\* session, issue no provider call and leave every session as it is.
UnknownCodeRejected == [][Rejects(ReqCodes \ DOMAIN sessions)]_vars

\* the same for the codes that are no key of the store and no property
\* name inherited from Object.prototype either: this much holds
PlainUnknownCodeRejected == [][Rejects(Codes \ DOMAIN sessions)]_vars

---------------------------------------------------------------------------
(* Provider failures and the movie list *)

FetchError == Json(500, [error |-> "Error fetching movie list"])
RatingSaved == Json(200, [message |-> "Rating saved"])

\* C11: a provider call that fails answers its request with the 500
\* fetch error and leaves flight without another call being issued; the
\* store is as before, so the movie list, preferences, ratings and joined
\* flags of every session keep their values.  In a state whose last
\* response is that error the session is still served: a rate is saved, a
\* fetch issues its call, and an answered call stores its list.
FailureKeepsList ==
    [][/\ \A i \in 1..Len(pending) :
            MoviesDone(i, Failure) =>
              /\ res' = FetchError
              /\ sessions' = sessions
              /\ Len(pending') = Len(pending) - 1
              /\ \A j \in 1..Len(pending') :
                   pending'[j] = pending[IF j < i THEN j ELSE j + 1]
       /\ res = FetchError =>
            /\ \A code \in DOMAIN sessions, user \in Slots,
                  movieId \in MovieIds, rating \in Ratings :
                 Rate(code, user, movieId, rating) =>
                   /\ res' = RatingSaved
                   /\ sessions'[code][user].ratings[movieId] = rating
            /\ \A code \in DOMAIN sessions :
                 (MoviesStart(code) /\ Len(pending) < MaxPending) =>
                   Len(pending') = Len(pending) + 1
            /\ \A i \in 1..Len(pending), results \in Results :
                 MoviesDone(i, Ok(results)) =>
                   /\ res'.status = 200
                   /\ sessions'[pending[i].code].movieList.elems
                        = res'.body.movies
      ]_vars

\* a fetch has failed on a session that holds a list of two movies and a
\* rating, while another call for the session is still in flight
FailureKeepsListWitness ==
    /\ res = FetchError
    /\ Len(pending) = 1
    /\ \E code \in DOMAIN sessions :
         /\ pending[1].code = code
         /\ Len(sessions[code].movieList.elems) = 2
         /\ DOMAIN sessions[code].userA.ratings # {}

\* C12: the movie list of a session is empty when the session is created
\* and never holds more than 12 movies; a provider call that succeeds with
\* n results stores and answers the first min(12, n) of them in the
\* provider's order, whatever list was stored; and the movies of a list
\* change in no other step.
ListIsSliceOfAnswer ==
    [][/\ \A code \in DOMAIN sessions' :
            LET new == sessions'[code].movieList.elems IN
            /\ Len(new) <= 12
            /\ code \notin DOMAIN sessions => new = << >>
            /\ (code \in DOMAIN sessions
                /\ new # sessions[code].movieList.elems) =>
                  \E i \in 1..Len(pending), results \in Results :
                      MoviesDone(i, Ok(results)) /\ pending[i].code = code
       /\ \A i \in 1..Len(pending), results \in Results :
            MoviesDone(i, Ok(results)) =>
              LET new == sessions'[pending[i].code].movieList.elems
                  n == Len(results)
              IN  /\ Len(new) = IF n < 12 THEN n ELSE 12
                  /\ \A k \in 1..Len(new) : new[k] = results[k]
                  /\ res' = Json(200, [movies |-> new])
      ]_vars

\* a response of 13 movies was stored as its first 12, in a session with
\* preferences and a rating saved and another call in flight
ListIsSliceOfAnswerWitness ==
    /\ Len(pending) = 1
    /\ \E code \in DOMAIN sessions :
         LET list == sessions[code].movieList.elems IN
         /\ Len(list) = 12
         /\ \A k \in 1..12 : list[k] = Movie(k)
         /\ res = Json(200, [movies |-> list])
         /\ sessions[code].userA.genres # << >>
         /\ DOMAIN sessions[code].userB.ratings # {}

\* a recommendation request on a session whose list is not empty and
\* fully rated by both participants
RatedRequest(code) ==
    /\ Recommendation(code)
    /\ sessions[code].movieList.elems # << >>
    /\ ~Unrated(sessions[code])

\* C13: a recommendation request on a session whose movie list is not
\* empty, and every movie of which both participants have a rating entry
\* for, answers one of the listed movies, whatever the values rated.
NonEmptyListRecommends ==
    [][\A code \in DOMAIN sessions :
         RatedRequest(code) =>
           /\ "recommended" \in DOMAIN res'.body
           /\ res'.body.recommended \in Range(sessions[code].movieList.elems)
      ]_vars

\* the same for the sessions in which some listed movie has a score above
\* -1, the initial bestScore: this much holds
ScoredListRecommends ==
    [][\A code \in DOMAIN sessions :
         (/\ RatedRequest(code)
          /\ \E i \in 1..Len(sessions[code].movieList.elems) :
               Sum(sessions[code], sessions[code].movieList.elems[i]) > -2) =>
           /\ "recommended" \in DOMAIN res'.body
           /\ res'.body.recommended \in Range(sessions[code].movieList.elems)
      ]_vars

\* the integer a releaseYear string of the requests denotes
YearValue(releaseYear) ==
    CASE releaseYear = <<"0">> -> 0
      [] releaseYear = <<"1", "9", "9", "0">> -> 1990
      [] releaseYear = <<"2", "0", "1", "0">> -> 2010

\* a save-preferences step stores the cutoff supplied, and leaves the
\* stored one as it is when none is supplied
StoresCutoffIfSupplied ==
    \A code \in DOMAIN sessions, user \in Slots,
       genres \in GenreInputs, releaseYear \in YearInputs :
        Preferences(code, user, genres, releaseYear) =>
          sessions'[code][user].releaseYear =
            IF releaseYear = << >> THEN sessions[code][user].releaseYear
            ELSE Present(Num(YearValue(releaseYear)))

\* a fetch is restricted by every cutoff stored: its release-date bound is
\* December 31 of a year no later than the cutoff
StoredCutoffsRestrict ==
    \A code \in DOMAIN sessions, user \in Slots :
        (MoviesStart(code) /\ sessions[code][user].releaseYear # Absent) =>
          /\ Issued.lte # Absent
          /\ Issued.lte[1].year <= sessions[code][user].releaseYear[1].n

\* C14: save-preferences overwrites the slot's cutoff with the integer
\* supplied, and leaves the stored cutoff unchanged when none is supplied;
\* a cutoff, once stored, restricts every later fetch.
CutoffKeptUnlessSupplied ==
    [][StoresCutoffIfSupplied /\ StoredCutoffsRestrict]_vars

\* the store alone is written as claimed: this much holds
CutoffStoredIffSupplied == [][StoresCutoffIfSupplied]_vars

\* C15: a rate step for slot userA or userB of a session of the store
\* answers success and leaves that slot's ratings with the entry for
\* movieId equal to rating, whatever was stored for it, and every other
\* entry as before; the slot's preferences, the other slot, the joined
\* flags, the movie list and every other session are unchanged.  A rate
\* that finds its rating already stored for its movieId changes nothing,
\* so the same request applied twice leaves the state of applying it once.
RateSetsOneEntry ==
    [][\A code \in DOMAIN sessions, user \in Slots,
          movieId \in MovieIds, rating \in FewRatings :
         Rate(code, user, movieId, rating) =>
           LET old == sessions[code]
               new == sessions'[code]
           IN  /\ res' = RatingSaved
               /\ DOMAIN new[user].ratings
                    = DOMAIN old[user].ratings \cup {movieId}
               /\ new[user].ratings[movieId] = rating
               /\ \A m \in DOMAIN old[user].ratings \ {movieId} :
                    new[user].ratings[m] = old[user].ratings[m]
               /\ new[user].genres = old[user].genres
               /\ new[user].releaseYear = old[user].releaseYear
               /\ new[Other(user)] = old[Other(user)]
               /\ new.isUserAJoined = old.isUserAJoined
               /\ new.isUserBJoined = old.isUserBJoined
               /\ new.movieList = old.movieList
               /\ DOMAIN sessions' = DOMAIN sessions
               /\ \A c \in DOMAIN sessions \ {code} : sessions'[c] = sessions[c]
               /\ (movieId \in DOMAIN old[user].ratings
                   /\ old[user].ratings[movieId] = rating) =>
                     sessions' = sessions
      ]_vars

\* a rating was saved for a participant who holds ratings for both movies,
\* with different values, beside a rating of the other participant
RateSetsOneEntryWitness ==
    /\ res = RatingSaved
    /\ \E code \in DOMAIN sessions :
         LET s == sessions[code] IN
         /\ DOMAIN s.userA.ratings = {1, 2}
         /\ s.userA.ratings[1] # s.userA.ratings[2]
         /\ DOMAIN s.userB.ratings # {}

NoMovieListError ==
    Json(400, [error |-> "No movie list available or session invalid"])

RateKeepsOtherWrites(code, user) ==
    \A movieId \in MovieIds, rating \in FewRatings :
        Rate(code, user, movieId, rating) =>
          LET old == sessions[code]
              new == sessions'[code]
          IN  /\ new[user].ratings[movieId] = rating
              /\ \A m \in DOMAIN old[user].ratings \ {movieId} :
                   m \in DOMAIN new[user].ratings
                   /\ new[user].ratings[m] = old[user].ratings[m]
              /\ new[user].genres = old[user].genres
              /\ new[user].releaseYear = old[user].releaseYear
              /\ new[Other(user)] = old[Other(user)]

\* the genres and cutoff of a slot change in save-preferences steps of
\* that slot only, and its ratings in rate steps of that slot only
OnlyOwnWrites(code, user) ==
    LET old == sessions[code]
        new == sessions'[code]
    IN  /\ (new[user].genres # old[user].genres
            \/ new[user].releaseYear # old[user].releaseYear) =>
              \E genres \in GenreInputs, releaseYear \in YearInputs :
                  Preferences(code, user, genres, releaseYear)
        /\ new[user].ratings # old[user].ratings =>
              \E movieId \in MovieIds, rating \in FewRatings :
                  Rate(code, user, movieId, rating)

\* C17 as stated: every save-preferences step of a slot leaves the slot
\* with the genres and the cutoff of that request (no cutoff when the
\* request carries none), every rate step leaves its entry with its
\* rating, and neither touches anything else written by either slot.
LastRequestStands ==
    [][\A code \in DOMAIN sessions, user \in Slots :
         /\ \A genres \in GenreInputs, releaseYear \in YearInputs :
              Preferences(code, user, genres, releaseYear) =>
                LET old == sessions[code]
                    new == sessions'[code]
                IN  /\ new[user].genres = genres
                    /\ new[user].releaseYear =
                         IF releaseYear = << >> THEN Absent
                         ELSE Present(Num(YearValue(releaseYear)))
                    /\ new[user].ratings = old[user].ratings
                    /\ new[Other(user)] = old[Other(user)]
         /\ RateKeepsOtherWrites(code, user)
         /\ OnlyOwnWrites(code, user)
      ]_vars

\* C17 amended: the same, except that a save-preferences request that
\* carries no cutoff leaves the slot's stored cutoff as it is; so the
\* genres are those of the slot's last preference request, the cutoff is
\* that of its last request that carried one, and each rating is that of
\* the last rate request for its slot and movie.
LastSuppliedStands ==
    [][\A code \in DOMAIN sessions, user \in Slots :
         /\ \A genres \in GenreInputs, releaseYear \in YearInputs :
              Preferences(code, user, genres, releaseYear) =>
                LET old == sessions[code]
                    new == sessions'[code]
                IN  /\ new[user].genres = genres
                    /\ new[user].releaseYear =
                         IF releaseYear = << >> THEN old[user].releaseYear
                         ELSE Present(Num(YearValue(releaseYear)))
                    /\ new[user].ratings = old[user].ratings
                    /\ new[Other(user)] = old[Other(user)]
         /\ RateKeepsOtherWrites(code, user)
         /\ OnlyOwnWrites(code, user)
      ]_vars

\* both slots hold genres, a cutoff and ratings of their own, written in
\* turns, the last request being a save-preferences
LastSuppliedStandsWitness ==
    /\ res = PreferencesUpdated
    /\ \E code \in DOMAIN sessions :
         LET s == sessions[code] IN
         /\ s.userA.genres = <<"18", "28">>
         /\ s.userB.genres = <<"28", "35">>
         /\ s.userA.releaseYear = Present(Num(1990))
         /\ s.userB.releaseYear = Present(Num(2010))
         /\ DOMAIN s.userA.ratings = {1, 2}
         /\ DOMAIN s.userB.ratings = {1}

\* the query params q ask for the genres and cutoffs a session stores now
AnswersCurrent(q, session) ==
    LET cutoff == MinCutoff(session.userA.releaseYear,
                            session.userB.releaseYear)
    IN  /\ Range(q.with_genres)
             = Range(session.userA.genres) \cup Range(session.userB.genres)
        /\ q.lte = IF cutoff = Absent THEN Absent
                   ELSE Present([year |-> cutoff[1].n, rest |-> "-12-31"])

\* C18: when a fetch stores its list, the provider call it answers asked
\* for the union of the genres and the minimum of the cutoffs that the
\* two slots store at that moment, whatever requests were processed while
\* the call was in flight.  (Of two overlapping fetches issued under
\* different preferences only the one issued last can satisfy this, so
\* the list stored last would be its answer.)
StoredListAnswersCurrent ==
    [][\A i \in 1..Len(pending), results \in Results :
         MoviesDone(i, Ok(results)) =>
           AnswersCurrent(pending[i].params, sessions[pending[i].code])
      ]_vars

\* what does hold: a call is issued for the preferences stored at the
\* moment of the request
IssuedAnswersCurrent ==
    [][\A code \in DOMAIN sessions :
         MoviesStart(code) => AnswersCurrent(Issued, sessions[code])
      ]_vars

\* a client has rated every movie its own fetch returned
FinishedRating(c) ==
    /\ client[c].step \in {"rateMovies", "final"}
    /\ \A i \in 1..Len(client[c].movies) :
         client[c].movies[i].id \in DOMAIN client[c].ratings

\* C19: when two clients follow the flow on one session and the provider
\* never fails, a recommendation request made once both have rated every
\* movie of the list their own fetch returned answers a movie.
ClientFlowRecommends ==
    [][\A c \in Clients, code \in OneCode :
         (/\ handleGetRecommendation(c, code)
          /\ \A d \in Clients : FinishedRating(d)) =>
           "recommended" \in DOMAIN res'.body
      ]_vars

\* what does hold: such a request answers a movie when the list stored is
\* the one both clients were shown
SameListRecommends ==
    [][\A c \in Clients, code \in OneCode :
         (/\ handleGetRecommendation(c, code)
          /\ \A d \in Clients :
               /\ FinishedRating(d)
               /\ client[d].movies = sessions[code].movieList.elems
          /\ sessions[code].movieList.elems # << >>) =>
           "recommended" \in DOMAIN res'.body
      ]_vars

\* the step is a request bearing code, or the answer to such a fetch
OperationOn(code) ==
    \/ Join(code)
    \/ MoviesStart(code)
    \/ Recommendation(code)
    \/ \E user \in Users, genres \in GenreInputs, releaseYear \in FewYears :
           Preferences(code, user, genres, releaseYear)
    \/ \E user \in Users, movieId \in MovieIds, rating \in FewRatings :
           Rate(code, user, movieId, rating)
    \/ \E i \in 1..Len(pending), answer \in Answers :
           pending[i].code = code /\ MoviesDone(i, answer)

\* a session as the handlers read it: its own properties, and the cutoff
\* each slot yields when read
SessionRead(code) ==
    [own |-> sessions[code],
     releaseYearA |-> ReleaseYearOf(sessions[code].userA),
     releaseYearB |-> ReleaseYearOf(sessions[code].userB)]

\* no step removes a session, and a code in the store is not issued again
Permanent ==
    /\ DOMAIN sessions \subseteq DOMAIN sessions'
    /\ \A code \in Codes : GenerateCode(code) => code \notin DOMAIN sessions

\* C20: an operation bearing code c, successful or not and whatever slot
\* name it carries, leaves every session with another code as it was, in
\* its stored properties and in what its slots yield when read; no step
\* removes a session, and generate-code never issues a code of the store.
SessionsIsolated ==
    [][/\ Permanent
       /\ \A c \in ReqCodes :
            OperationOn(c) =>
              \A d \in DOMAIN sessions \ {c} : SessionRead(d)' = SessionRead(d)
      ]_vars

\* what does hold: the own properties of every other session are left as
\* they were, and sessions are permanent
StoredSessionsIsolated ==
    [][/\ Permanent
       /\ \A c \in ReqCodes :
            OperationOn(c) =>
              \A d \in DOMAIN sessions \ {c} : sessions'[d] = sessions[d]
      ]_vars

====
